---- MODULE Spec2Model ----
(***************************************************************************)
(* DugnadHUB: the participation / capacity subsystem.                      *)
(*                                                                         *)
(* The store is the Firestore project: one event document, the             *)
(* "participations" collection and the "favorites" collection.  Clients    *)
(* are screens: an EventDetailsScreen per volunteer, and the organiser's   *)
(* ManageParticipantsScreen, CreateEventScreen and EventDetailsScreen.     *)
(* Every await of a handler is a step of its own, so that the writes of    *)
(* different handlers interleave the way the network calls do.             *)
(***************************************************************************)
EXTENDS Integers, Sequences, FiniteSets, Bags, TLC

\* ---------------------------------------------------------------- bounds
NumVolunteers == 2      \* volunteer sessions (one EventDetailsScreen each)
MaxParts == 2           \* participation documents ever created
MaxFavs == 1            \* favorite documents ever created
MaxFavsSolo == 2        \* favorite documents ever created by overlapping toggles
MaxTasks == 2           \* handlers in flight at the same time
MaxCap == 2             \* largest maxVolunteers the organiser enters
MaxEdits == 1           \* event edits saved by the organiser
MaxChanges == 1         \* status changes the organiser makes on the roster
MaxDocs == 3            \* documents of a roster snapshot drawn at random
MaxAuthChanges == 3     \* auth state changes of one session
MaxTime == 1            \* largest createdAt of such a document

\* ------------------------------------------------------------- constants
OwnerId == 0            \* the event's createdBy
NoId == 0               \* a null document id (participationId, favoriteId)
NoUser == -1            \* appUser is null: nobody is signed in
TheEvent == 1           \* route.params.eventId of every screen
OtherEvent == 2         \* the eventId of records of another event

Volunteers == 1..NumVolunteers
Statuses == {"signed_up", "withdrawn", "attended"}

VARIABLES
  ev,        \* the event document: [state, cur, max]
  parts,     \* participations collection: sequence of documents, id = index
  favs,      \* favorites collection: sequence of documents, id = index
  client,    \* React state of each volunteer's EventDetailsScreen
  notify,    \* snapshot notifications not yet delivered, per subscription
  roster,    \* React state of the ManageParticipantsScreen and its appUser
  form,      \* React state of the organiser's CreateEventScreen (edit mode)
  ownerScreen, \* React state of the organiser's EventDetailsScreen
  tasks,     \* bag of handlers that are suspended at an await
  last       \* history: the handler call that returned last, and how

vars == <<ev, parts, favs, client, notify, roster, form, ownerScreen, tasks, last>>

\* ----------------------------------------------------------------- store
EventExists == ev.state = "live"

\* where("eventId","==",e) /\ where("userId","==",u) /\ where("status","==","signed_up")
SignedUpDocs(ps, u) ==
  {i \in DOMAIN ps : ps[i].exists /\ ps[i].eventId = TheEvent
                      /\ ps[i].userId = u /\ ps[i].status = "signed_up"}

\* variant: a query without the eventId filter
AllParts(ps) == {i \in DOMAIN ps : ps[i].exists}
\* where("eventId","==",e)
EventParts(ps) == {i \in DOMAIN ps : ps[i].exists /\ ps[i].eventId = TheEvent}

\* where("eventId","==",e) /\ where("userId","==",u) on favorites
FavDocs(fs, u) ==
  {i \in DOMAIN fs : fs[i].exists /\ fs[i].eventId = TheEvent /\ fs[i].userId = u}

EventFavs(fs) == {i \in DOMAIN fs : fs[i].exists /\ fs[i].eventId = TheEvent}

ActiveCount == Cardinality({i \in EventParts(parts) : parts[i].status = "signed_up"})

\* ------------------------------------------------------- notifications
\* A write to a document marks every subscription whose result it changes.
NotifyEvent(n) == [c \in DOMAIN n |-> [n[c] EXCEPT !.event = TRUE]]
NotifyPart(n, u) ==
  [c \in DOMAIN n |->
     IF c = u \/ c = OwnerId THEN [n[c] EXCEPT !.part = TRUE] ELSE n[c]]
NotifyFav(n, u) ==
  [c \in DOMAIN n |-> IF c = u THEN [n[c] EXCEPT !.fav = TRUE] ELSE n[c]]

\* ----------------------------------------------------------------- tasks
NoEvent == [present |-> FALSE, cur |-> 0, max |-> 0]

\* history record of a handler call that has returned
Last0 ==
  [op |-> "none", c |-> OwnerId, res |-> "none", pid |-> NoId, cv0 |-> 0,
   st0 |-> "none", after |-> "none"]

\* One suspended handler.  Every task has the same fields; a handler uses
\* the ones it needs.
\*   kind   the handler
\*   c      the user whose screen runs it
\*   pc     the await it is suspended at
\*   event  the `event` (or eventStats) of the render the handler closed over
\*   pid    the document id the handler works on
\*   from   participant.status of the roster row (setStatus)
\*   next   nextStatus (setStatus), new maxVolunteers (edit)
\*   todo   cascade deletes not yet settled (delete)
\*   snapP, snapF  the documents of the two cascade queries (delete)
\*   failed Promise.all has rejected (delete)
\*   cv0    history: the stored currentVolunteers when the handler was called
\*   st0    history: the stored status of pid when the handler was called
\*   after  history: the call that returned just before this one was made,
\*          when this call completes a round trip with it
\*   base   history: cv0 of that call
\*   view0  history: what the screen showed when the handler was called
View0 == [cur |-> 0, isSignedUp |-> FALSE, participationId |-> NoId, favoriteId |-> NoId]

Task0 ==
  [kind |-> "none", c |-> OwnerId, pc |-> "none", event |-> NoEvent, pid |-> NoId,
   from |-> "none", next |-> "none", newMax |-> 0,
   todoP |-> {}, todoF |-> {}, snapP |-> {}, snapF |-> {}, failed |-> FALSE,
   cv0 |-> 0, st0 |-> "none", after |-> "none", base |-> 0, view0 |-> View0,
   user |-> NoUser]

InFlight == BagCardinality(tasks)
TaskSet == BagToSet(tasks)
Spawn(t) == tasks (+) SetToBag({t})
Replace(t, u) == (tasks (-) SetToBag({t})) (+) SetToBag({u})
Retire(t) == tasks (-) SetToBag({t})

Returned(t, res) ==
  [op |-> t.kind, c |-> t.c, res |-> res, pid |-> t.pid, cv0 |-> t.cv0,
   st0 |-> t.st0, after |-> t.after]

StoredStatus(id) == IF id \in DOMAIN parts /\ parts[id].exists THEN parts[id].status ELSE "none"

\* ------------------------------------------------------------------ Init
\* MyEventsScreen of a session: the locals of its effect (eventSubscriptions,
\* eventCache, latestParticipationDocs), the per-event listeners that are
\* open in the store client, the listeners that still owe their first
\* snapshot, and the event ids whose listener a snapshot has cancelled
EventIds == {TheEvent, OtherEvent}
MyEvents0 ==
  [mounted |-> FALSE, pending |-> FALSE, latestParticipationDocs |-> {},
   eventSubscriptions |-> {}, eventCache |-> {},
   open |-> [e \in EventIds |-> 0], waiting |-> {}, dropped |-> {}]

\* AuthProvider of a session: the auth state of the SDK (current), the
\* useState values firebaseUser, appUser and loading, the effect's local
\* unsubscribeUserDoc (the user whose profile listener it cancels), the
\* profile listeners open in the store client per user, the users whose
\* listener owes its first snapshot, and the number of auth changes so far
Auth0 ==
  [current |-> NoUser, firebaseUser |-> NoUser, appUser |-> NoUser,
   loading |-> TRUE, unsubscribeUserDoc |-> NoUser,
   open |-> [u \in Volunteers |-> 0], owed |-> {}, changes |-> 0]
\* the provider once user u is signed in and the profile has been read
SignedIn(u) ==
  [Auth0 EXCEPT !.current = u, !.firebaseUser = u, !.appUser = u,
                !.loading = FALSE, !.unsubscribeUserDoc = u, !.open[u] = 1]

\* signedIn: appUser of useAuth() is not null
Client0 ==
  [event |-> NoEvent, isSignedUp |-> FALSE, participationId |-> NoId,
   favoriteId |-> NoId, withdrawing |-> FALSE, error |-> "null",
   signedIn |-> FALSE, myEvents |-> MyEvents0, auth |-> Auth0]
\* the session of volunteer c, signed in
Session(c) == [Client0 EXCEPT !.signedIn = TRUE, !.auth = SignedIn(c)]

\* ManageParticipantsScreen: useState initial values, the appUser of the
\* screen, and the userCache of the roster effect with the number of
\* getDoc(users/uid) requests the effect has issued per user
Roster0 ==
  [eventStats |-> NoEvent, participants |-> << >>,
   allowed |-> TRUE, updatingId |-> NoId, error |-> "null",
   changes |-> 0, user |-> OwnerId,
   userCache |-> {}, fetches |-> [u \in Volunteers |-> 0]]

\* CreateEventScreen in edit mode and the EventDetailsScreen on which the
\* event is deleted: useState initial values, with the appUser of the screen
Form0 ==
  [open |-> FALSE, existingVolunteers |-> 0, edits |-> 0, user |-> OwnerId,
   saving |-> FALSE, error |-> "null"]
OwnerScreen0 == [deleting |-> FALSE, error |-> "null", user |-> OwnerId]

Init ==
  /\ ev = [state |-> "none", cur |-> 0, max |-> 0]
  /\ parts = << >>
  /\ favs = << >>
  /\ client = [c \in Volunteers |-> Session(c)]
  /\ notify = [c \in Volunteers \cup {OwnerId} |->
                 [event |-> FALSE, part |-> FALSE, fav |-> FALSE]]
  /\ roster = Roster0
  /\ form = Form0
  /\ ownerScreen = OwnerScreen0
  /\ tasks = EmptyBag
  /\ last = Last0


\* --------------------------------------------------- snapshot listeners
\* EventDetailsScreen: onSnapshot(eventRef)
Loaded == [present |-> TRUE, cur |-> ev.cur, max |-> ev.max]

EventSnapshot(c) ==
  /\ notify[c].event
  /\ notify' = [notify EXCEPT ![c].event = FALSE]
  /\ client' = [client EXCEPT ![c] =
                  IF EventExists
                    THEN [@ EXCEPT !.event = Loaded]
                    ELSE [@ EXCEPT !.event = NoEvent, !.error = "notFound"]]
  /\ UNCHANGED <<ev, parts, favs, roster, form, ownerScreen, tasks, last>>

\* EventDetailsScreen: onSnapshot(participationQuery).  snap.docs[0] is the
\* first document in document-id order; auto-ids are random, so any of the
\* matching documents can be the first.
ParticipationSnapshot(c) ==
  /\ client[c].signedIn
  /\ notify[c].part
  /\ notify' = [notify EXCEPT ![c].part = FALSE]
  /\ LET docs == SignedUpDocs(parts, c) IN
       IF docs = {}
         THEN client' = [client EXCEPT ![c].isSignedUp = FALSE,
                                       ![c].participationId = NoId]
         ELSE \E d \in docs :
                client' = [client EXCEPT ![c].isSignedUp = TRUE,
                                         ![c].participationId = d]
  /\ UNCHANGED <<ev, parts, favs, roster, form, ownerScreen, tasks, last>>

\* EventDetailsScreen: onSnapshot(favoritesQuery)
FavoritesSnapshot(c) ==
  /\ client[c].signedIn
  /\ notify[c].fav
  /\ notify' = [notify EXCEPT ![c].fav = FALSE]
  /\ LET docs == FavDocs(favs, c) IN
       IF docs = {}
         THEN client' = [client EXCEPT ![c].favoriteId = NoId]
         ELSE \E d \in docs : client' = [client EXCEPT ![c].favoriteId = d]
  /\ UNCHANGED <<ev, parts, favs, roster, form, ownerScreen, tasks, last>>

\* -------------------------------------------------------------- AuthProvider
\* onAuthStateChanged callback up to its first await: unsubscribeUserDoc?.();
\* unsubscribeUserDoc = null; setFirebaseUser(user); without a user
\* setAppUser(null), setLoading(false) and return; else setLoading(true) and
\* await getDoc(ref)
Unsubscribed(a) ==
  LET h == a.unsubscribeUserDoc IN
    IF h = NoUser THEN a
    ELSE [a EXCEPT !.unsubscribeUserDoc = NoUser,
                   !.open[h] = @ - 1,
                   !.owed = IF a.open[h] = 1 THEN @ \ {h} ELSE @]

AuthChanged(c, u) ==
  LET a == Unsubscribed(client[c].auth) IN
    /\ u # client[c].auth.current
    /\ a.changes < MaxAuthChanges
    /\ IF u = NoUser
         THEN /\ client' = [client EXCEPT
                   ![c].auth = [a EXCEPT !.current = u, !.firebaseUser = u,
                                         !.appUser = NoUser, !.loading = FALSE,
                                         !.changes = @ + 1],
                   ![c].signedIn = FALSE]
              /\ UNCHANGED tasks
         ELSE /\ InFlight < MaxTasks
              /\ client' = [client EXCEPT
                   ![c].auth = [a EXCEPT !.current = u, !.firebaseUser = u,
                                         !.loading = TRUE, !.changes = @ + 1]]
              /\ tasks' = Spawn([Task0 EXCEPT !.kind = "auth", !.c = c,
                                              !.pc = "getDoc", !.user = u])
    /\ UNCHANGED <<ev, parts, favs, notify, roster, form, ownerScreen, last>>

\* const snap = await getDoc(ref); if (!snap.exists()) await setDoc(ref, ...):
\* the users collection is not part of the model, the document may exist or not
AuthGetDoc(t) ==
  /\ t \in TaskSet /\ t.kind = "auth" /\ t.pc = "getDoc"
  /\ \E exists \in BOOLEAN :
       tasks' = Replace(t, [t EXCEPT !.pc = IF exists THEN "subscribe" ELSE "setDoc"])
  /\ UNCHANGED <<ev, parts, favs, client, notify, roster, form, ownerScreen, last>>

\* await setDoc(ref, {email, displayName, role, createdAt})
AuthSetDoc(t) ==
  /\ t \in TaskSet /\ t.kind = "auth" /\ t.pc = "setDoc"
  /\ tasks' = Replace(t, [t EXCEPT !.pc = "subscribe"])
  /\ UNCHANGED <<ev, parts, favs, client, notify, roster, form, ownerScreen, last>>

\* unsubscribeUserDoc = onSnapshot(ref, ...)
AuthSubscribe(t) ==
  /\ t \in TaskSet /\ t.kind = "auth" /\ t.pc = "subscribe"
  /\ client' = [client EXCEPT ![t.c].auth.unsubscribeUserDoc = t.user,
                              ![t.c].auth.open[t.user] = @ + 1,
                              ![t.c].auth.owed = @ \cup {t.user}]
  /\ tasks' = Retire(t)
  /\ UNCHANGED <<ev, parts, favs, notify, roster, form, ownerScreen, last>>

\* the profile snapshot callback of the listener on users/u:
\* setAppUser({id: user.uid, ...}); setLoading(false)
AuthProfileSnapshot(c, u) ==
  /\ client[c].auth.open[u] > 0
  /\ u \in client[c].auth.owed
  /\ client' = [client EXCEPT ![c].auth.appUser = u,
                              ![c].auth.loading = FALSE,
                              ![c].auth.owed = @ \ {u},
                              ![c].signedIn = TRUE]
  /\ UNCHANGED <<ev, parts, favs, notify, roster, form, ownerScreen, tasks, last>>

\* ------------------------------------------------------------ MyEventsScreen
\* the effect of MyEventsScreen: onSnapshot(participationQuery)
MyEventsMount(c) ==
  /\ client[c].signedIn
  /\ ~client[c].myEvents.mounted
  /\ client' = [client EXCEPT ![c].myEvents = [MyEvents0 EXCEPT !.mounted = TRUE,
                                                              !.pending = TRUE]]
  /\ UNCHANGED <<ev, parts, favs, notify, roster, form, ownerScreen, tasks, last>>

\* where("userId","==",appUser.id), where("status","==","signed_up")
MyParticipations(ps, u) ==
  {i \in DOMAIN ps : ps[i].exists /\ ps[i].userId = u /\ ps[i].status = "signed_up"}
nextEventIds(ps, docs) == {ps[i].eventId : i \in docs}

\* variant: no subscription is ever found stale
StaleNone(subs, next) == {}
\* eventSubscriptions.forEach(... if (!nextEventIds.has(eventId)) ...)
Stale(subs, next) == {e \in subs : e \notin next}

\* the participation snapshot callback: unsubscribe and forget the events no
\* longer referenced, subscribe to the new ones, keep the others
MyParticipationsSnapshot(c) ==
  LET m == client[c].myEvents
      docs == MyParticipations(parts, c)
      next == nextEventIds(parts, docs)
      stale == Stale(m.eventSubscriptions, next)
      added == {e \in next : e \notin m.eventSubscriptions}
  IN /\ m.mounted
     /\ m.pending \/ m.latestParticipationDocs # docs
     /\ client' = [client EXCEPT ![c].myEvents =
          [m EXCEPT !.pending = FALSE,
                    !.latestParticipationDocs = docs,
                    !.eventSubscriptions = (@ \ stale) \cup added,
                    !.eventCache = @ \ stale,
                    !.open = [e \in EventIds |->
                                @[e] - (IF e \in stale THEN 1 ELSE 0)
                                     + (IF e \in added THEN 1 ELSE 0)],
                    !.waiting = (@ \ stale) \cup added,
                    !.dropped = @ \cup stale]]
     /\ UNCHANGED <<ev, parts, favs, notify, roster, form, ownerScreen, tasks, last>>

\* the event document e as the store holds it
Stored(e) == e = OtherEvent \/ EventExists

\* the per-event snapshot callback: eventCache.delete or eventCache.set
MyEventSnapshot(c, e) ==
  LET m == client[c].myEvents IN
    /\ m.open[e] > 0
    /\ e \in m.waiting \/ (e \in m.eventCache) # Stored(e)
    /\ client' = [client EXCEPT ![c].myEvents =
         [m EXCEPT !.waiting = @ \ {e},
                   !.eventCache = IF Stored(e) THEN @ \cup {e} ELSE @ \ {e}]]
    /\ UNCHANGED <<ev, parts, favs, notify, roster, form, ownerScreen, tasks, last>>

\* the cleanup of the effect: unsubscribeParticipations(); every
\* eventSubscriptions entry unsubscribed; both maps cleared
MyEventsUnmount(c) ==
  LET m == client[c].myEvents IN
    /\ m.mounted
    /\ client' = [client EXCEPT ![c].myEvents =
         [MyEvents0 EXCEPT !.open = [e \in EventIds |->
             m.open[e] - (IF e \in m.eventSubscriptions THEN 1 ELSE 0)]]]
    /\ UNCHANGED <<ev, parts, favs, notify, roster, form, ownerScreen, tasks, last>>

\* ------------------------------------------------------ roster aggregator
\* (b.createdAt?.getTime() ?? 0): a missing timestamp sorts as epoch 0
SortKey(row) == IF row.createdAt.has THEN row.createdAt.ms ELSE 0

\* variant: rows left in the reverse of the snapshot's order
InsertRowFront(row, sorted) == <<row>> \o sorted
\* rows.sort((a, b) => key(b) - key(a)): a stable sort, descending
RECURSIVE InsertRow(_, _)
InsertRow(row, sorted) ==
  IF sorted = << >> THEN <<row>>
  ELSE IF SortKey(Head(sorted)) >= SortKey(row)
         THEN <<Head(sorted)>> \o InsertRow(row, Tail(sorted))
         ELSE <<row>> \o sorted

RECURSIVE SortRows(_)
SortRows(rows) ==
  IF rows = << >> THEN << >>
  ELSE InsertRow(rows[Len(rows)], SortRows(SubSeq(rows, 1, Len(rows) - 1)))

\* the row of one document: (data.status || "signed_up"), a missing status
\* field being the status "missing" of the stored document
RowStatus(st) == IF st = "missing" THEN "signed_up" ELSE st
RowOf(ps, i) ==
  [id |-> i, userId |-> ps[i].userId, status |-> RowStatus(ps[i].status),
   createdAt |-> ps[i].createdAt]

RECURSIVE RowsFrom(_, _)
RowsFrom(ps, i) ==
  IF i > Len(ps) THEN << >>
  ELSE IF ps[i].exists /\ ps[i].eventId = TheEvent
         THEN <<RowOf(ps, i)>> \o RowsFrom(ps, i + 1)
         ELSE RowsFrom(ps, i + 1)

RosterRows(ps) == SortRows(RowsFrom(ps, 1))

\* participants.filter((p) => p.status === ...)
activeParticipants == SelectSeq(roster.participants, LAMBDA p : p.status = "signed_up")
\* variant: a withdrawn bucket of every row that is not active
withdrawnParticipantsLoose ==
  SelectSeq(roster.participants, LAMBDA p : p.status # "signed_up")
withdrawnParticipants == SelectSeq(roster.participants, LAMBDA p : p.status = "withdrawn")
attendedParticipants == SelectSeq(roster.participants, LAMBDA p : p.status = "attended")

\* ManageParticipantsScreen: the roster effect subscribes unless
\* (!eventId || !allowed || !appUser)
RosterSubscribed == roster.allowed /\ roster.user # NoUser

\* ManageParticipantsScreen: onSnapshot(eventRef).  The callback allows the
\* roster only to the signed-in createdBy of an existing event.  The roster
\* effect depends on `allowed`: it empties the list when allowed turns false
\* and subscribes anew when it turns true.
RosterEventError ==
  IF ~EventExists THEN "eventMissing"
  ELSE IF roster.user = NoUser THEN "authRequired"
  ELSE IF roster.user # OwnerId THEN "notOwner"
  ELSE "null"

RosterEventSnapshot ==
  /\ notify[OwnerId].event
  /\ LET allow == RosterEventError = "null" IN
       /\ roster' = [roster EXCEPT !.allowed = allow,
                                   !.eventStats = IF EventExists THEN Loaded ELSE NoEvent,
                                   !.error = RosterEventError,
                                   !.participants = IF allow THEN @ ELSE << >>,
                                   !.userCache = IF allow = roster.allowed THEN @ ELSE {},
                                   !.fetches = IF allow = roster.allowed THEN @
                                               ELSE Roster0.fetches]
       /\ notify' = [notify EXCEPT ![OwnerId].event = FALSE,
                                   ![OwnerId].part = IF allow THEN @ \/ ~roster.allowed
                                                     ELSE FALSE]
  /\ UNCHANGED <<ev, parts, favs, client, form, ownerScreen, tasks, last>>

\* snapshot.docs.map(async (docSnap) => {let profile = userCache.get(userId);
\* if (!profile) {... await getDoc(doc(db, "users", userId)) ...;
\* userCache.set(userId, profile)}}): every callback runs to its first await
\* before any getDoc resolves, so each document of a user who is not cached
\* issues a request
ProfileFetches(ps, cache, u) ==
  IF u \in cache THEN 0
  ELSE Cardinality({i \in EventParts(ps) : ps[i].userId = u})

\* ManageParticipantsScreen: onSnapshot(participationQuery)
RosterSnapshot ==
  /\ notify[OwnerId].part
  /\ RosterSubscribed
  /\ notify' = [notify EXCEPT ![OwnerId].part = FALSE]
  /\ roster' = [roster EXCEPT
         !.participants = RosterRows(parts), !.error = "null",
         !.userCache = @ \cup {parts[i].userId : i \in EventParts(parts)},
         !.fetches = [u \in Volunteers |->
                        @[u] + ProfileFetches(parts, roster.userCache, u)]]
  /\ UNCHANGED <<ev, parts, favs, client, form, ownerScreen, tasks, last>>


\* ------------------------------------------------- CreateEventScreen: create
\* handleSubmit, create branch: addDoc(events, {maxVolunteers: numericMax,
\* currentVolunteers: 0, createdBy: appUser.id, ...}); numericMax > 0
CreateEvent(m) ==
  /\ ev.state = "none"
  /\ m > 0
  /\ ev' = [state |-> "live", cur |-> 0, max |-> m]
  /\ notify' = NotifyEvent(notify)
  /\ UNCHANGED <<parts, favs, client, roster, form, ownerScreen, tasks, last>>

\* ------------------------------------------------ EventDetailsScreen: signUp
\* what the screen shows of the participation state: event.currentVolunteers,
\* isSignedUp, participationId, favoriteId
View(c) ==
  [cur |-> client[c].event.cur, isSignedUp |-> client[c].isSignedUp,
   participationId |-> client[c].participationId, favoriteId |-> client[c].favoriteId]

isOwner(c) == c = OwnerId
canSignUp(c) ==
  /\ client[c].event.present
  /\ client[c].signedIn
  /\ client[c].event.cur < client[c].event.max
  /\ ~client[c].isSignedUp
  /\ ~isOwner(c)
canWithdraw(c) ==
  /\ client[c].event.present
  /\ client[c].isSignedUp
  /\ client[c].participationId # NoId

PendingAdds(kind) ==
  BagCardinality([t \in {x \in TaskSet : x.kind = kind /\ x.pc = "add"} |-> tasks[t]])

\* variant: a pre-check that lets an exactly full event through
SignUpFullStrict(e) == e.cur > e.max
\* the capacity pre-check of handleSignUp
SignUpFull(e) == e.cur >= e.max

\* handleSignUp up to its first await: if (!event || !appUser) return; then
\* setError(null) and the capacity pre-check.  lim bounds the handlers in
\* flight.
handleSignUp(c, lim) ==
  /\ client[c].event.present
  /\ LET call == [Task0 EXCEPT !.kind = "signUp", !.c = c, !.pc = "add",
                               !.event = client[c].event, !.cv0 = ev.cur,
                               !.view0 = View(c)]
     IN IF ~client[c].signedIn
          THEN /\ last' = Returned(call, "return")
               /\ UNCHANGED <<client, tasks>>
          ELSE IF SignUpFull(client[c].event)
          THEN /\ client' = [client EXCEPT ![c].error = "errorFull"]
               /\ last' = Returned(call, "full")
               /\ UNCHANGED tasks
          ELSE /\ InFlight < lim
               /\ Len(parts) + PendingAdds("signUp") < MaxParts
               /\ client' = [client EXCEPT ![c].error = "null"]
               /\ tasks' = Spawn(call)
               /\ UNCHANGED last
  /\ UNCHANGED <<ev, parts, favs, notify, roster, form, ownerScreen>>

\* the control is rendered: {canSignUp ? <PrimaryButton onPress={handleSignUp}/> ...}
PressSignUp(c, lim) == canSignUp(c) /\ handleSignUp(c, lim)
\* the handler called while the control is not offered
CallSignUp(c, lim) == ~canSignUp(c) /\ handleSignUp(c, lim)

NewParticipation(u) ==
  [userId |-> u, eventId |-> TheEvent, status |-> "signed_up", exists |-> TRUE,
   createdAt |-> [has |-> TRUE, ms |-> Len(parts) + 1]]

\* await addDoc(collection(db, "participations"), {...})
SignUpAdd(t) ==
  /\ t \in TaskSet /\ t.kind = "signUp" /\ t.pc = "add"
  /\ parts' = Append(parts, NewParticipation(t.c))
  /\ notify' = NotifyPart(notify, t.c)
  /\ tasks' = Replace(t, [t EXCEPT !.pc = "inc", !.pid = Len(parts) + 1])
  /\ UNCHANGED <<ev, favs, client, roster, form, ownerScreen, last>>

\* the field-level increment(delta) of an updateDoc on the event document
Increment(e, delta) == [e EXCEPT !.cur = @ + delta]
\* variant: a sign-up that takes no place
SignUpDeltaNone == 1 - 1
SignUpDelta == 1
\* variant: a withdrawal that releases two places
WithdrawDeltaTwice == 0 - 2
WithdrawDelta == -1

\* the handler's catch (and finally) in EventDetailsScreen
Caught(t, msg) ==
  [client EXCEPT ![t.c].error = msg,
                 ![t.c].withdrawing = IF t.kind = "withdraw" THEN FALSE ELSE @]

\* await updateDoc(docRef, {currentVolunteers: increment(1)}); an update of a
\* document that does not exist is rejected
SignUpInc(t) ==
  /\ t \in TaskSet /\ t.kind = "signUp" /\ t.pc = "inc"
  /\ IF EventExists
       THEN /\ ev' = Increment(ev, SignUpDelta)
            /\ notify' = NotifyEvent(notify)
            /\ tasks' = Replace(t, [t EXCEPT !.pc = "fin"])
            /\ UNCHANGED <<client, last>>
       ELSE /\ client' = Caught(t, "notFound")
            /\ tasks' = Retire(t)
            /\ last' = Returned(t, "error")
            /\ UNCHANGED <<ev, notify>>
  /\ UNCHANGED <<parts, favs, roster, form, ownerScreen>>

\* setEvent({...event, currentVolunteers: event.currentVolunteers + 1});
\* setIsSignedUp(true); setParticipationId(participationDoc.id)
SignUpFin(t) ==
  /\ t \in TaskSet /\ t.kind = "signUp" /\ t.pc = "fin"
  /\ client' = [client EXCEPT ![t.c].event = [t.event EXCEPT !.cur = @ + 1],
                              ![t.c].isSignedUp = TRUE,
                              ![t.c].participationId = t.pid]
  /\ tasks' = Retire(t)
  /\ last' = Returned(t, "ok")
  /\ UNCHANGED <<ev, parts, favs, notify, roster, form, ownerScreen>>

\* ---------------------------------------------- EventDetailsScreen: withdraw
\* if (!event || !appUser || !participationId) return
handleWithdraw(c, lim) ==
  /\ client[c].event.present
  /\ client[c].signedIn
  /\ client[c].participationId # NoId
  /\ InFlight < lim
  /\ client' = [client EXCEPT ![c].error = "null", ![c].withdrawing = TRUE]
  /\ tasks' = Spawn([Task0 EXCEPT !.kind = "withdraw", !.c = c, !.pc = "upd",
                                  !.event = client[c].event,
                                  !.pid = client[c].participationId,
                                  !.cv0 = ev.cur,
                                  !.st0 = StoredStatus(client[c].participationId),
                                  !.view0 = View(c)])
  /\ UNCHANGED <<ev, parts, favs, notify, roster, form, ownerScreen, last>>

\* variant: a withdraw button that is never disabled
PressWithdrawEnabled(c, lim) ==
  /\ ~canSignUp(c) /\ canWithdraw(c)
  /\ handleWithdraw(c, lim)
\* <PrimaryButton onPress={handleWithdraw} disabled={withdrawing}/>, rendered
\* when canSignUp is false and canWithdraw is true
PressWithdraw(c, lim) ==
  /\ ~canSignUp(c) /\ canWithdraw(c) /\ ~client[c].withdrawing
  /\ handleWithdraw(c, lim)

\* variant: a status update that is acknowledged and lost
SetStoredStatusLost(ps, id, st) == ps
\* updateDoc(participationRef, {status}) on the stored collection
SetStoredStatus(ps, id, st) == [ps EXCEPT ![id].status = st]
DocExists(ps, id) == id \in DOMAIN ps /\ ps[id].exists

\* await updateDoc(participationRef, {status: "withdrawn"})
WithdrawUpd(t) ==
  /\ t \in TaskSet /\ t.kind = "withdraw" /\ t.pc = "upd"
  /\ IF DocExists(parts, t.pid)
       THEN /\ parts' = SetStoredStatus(parts, t.pid, "withdrawn")
            /\ notify' = IF parts[t.pid].status # "withdrawn"
                           THEN NotifyPart(notify, parts[t.pid].userId)
                           ELSE notify
            /\ tasks' = Replace(t, [t EXCEPT !.pc = "inc"])
            /\ UNCHANGED <<client, last>>
       ELSE /\ client' = Caught(t, "notFound")
            /\ tasks' = Retire(t)
            /\ last' = Returned(t, "error")
            /\ UNCHANGED <<parts, notify>>
  /\ UNCHANGED <<ev, favs, roster, form, ownerScreen>>

\* await updateDoc(eventRef, {currentVolunteers: increment(-1)})
WithdrawInc(t) ==
  /\ t \in TaskSet /\ t.kind = "withdraw" /\ t.pc = "inc"
  /\ IF EventExists
       THEN /\ ev' = Increment(ev, WithdrawDelta)
            /\ notify' = NotifyEvent(notify)
            /\ tasks' = Replace(t, [t EXCEPT !.pc = "fin"])
            /\ UNCHANGED <<client, last>>
       ELSE /\ client' = Caught(t, "notFound")
            /\ tasks' = Retire(t)
            /\ last' = Returned(t, "error")
            /\ UNCHANGED <<ev, notify>>
  /\ UNCHANGED <<parts, favs, roster, form, ownerScreen>>

\* Math.max(event.currentVolunteers - 1, 0)
ClampZero(n) == IF n > 0 THEN n ELSE 0

\* setEvent({...event, currentVolunteers: Math.max(event.currentVolunteers - 1, 0)});
\* setIsSignedUp(false); setParticipationId(null); finally setWithdrawing(false)
WithdrawFin(t) ==
  /\ t \in TaskSet /\ t.kind = "withdraw" /\ t.pc = "fin"
  /\ client' = [client EXCEPT ![t.c].event = [t.event EXCEPT !.cur = ClampZero(@ - 1)],
                              ![t.c].isSignedUp = FALSE,
                              ![t.c].participationId = NoId,
                              ![t.c].withdrawing = FALSE]
  /\ tasks' = Retire(t)
  /\ last' = Returned(t, "ok")
  /\ UNCHANGED <<ev, parts, favs, notify, roster, form, ownerScreen>>


\* ------------------------------------- ManageParticipantsScreen: setStatus
RosterRowSet == {roster.participants[i] : i \in DOMAIN roster.participants}

\* variant: a re-validation that lets an exactly full event through
ReinstateFullStrict(from, next, stats) ==
  from # "signed_up" /\ next = "signed_up" /\ stats.cur > stats.max
\* the capacity re-validation of a reinstatement
ReinstateFull(from, next, stats) ==
  from # "signed_up" /\ next = "signed_up" /\ stats.cur >= stats.max

\* variant: a reinstatement that takes no place
StatusDeltaNoReinstate(from, next) ==
  IF from = "signed_up" /\ next # "signed_up" THEN -1 ELSE 0
\* let delta = 0; if (from === "signed_up" && next !== "signed_up") delta = -1;
\* else if (from !== "signed_up" && next === "signed_up") delta = 1
StatusDelta(from, next) ==
  IF from = "signed_up" /\ next # "signed_up" THEN -1
  ELSE IF from # "signed_up" /\ next = "signed_up" THEN 1
  ELSE 0

\* variant: an owner check that only asks for a signed-in user
NotOwnerSignedOut(user) == user = NoUser
\* if (!appUser || eventStats.ownerId !== appUser.id)
NotOwner(user) == user = NoUser \/ OwnerId # user

\* handleStatusChange(participant, nextStatus) up to its first await
handleStatusChange(row, next, lim) ==
  /\ LET call == [Task0 EXCEPT !.kind = "setStatus", !.c = OwnerId, !.pc = "upd",
                               !.event = roster.eventStats, !.pid = row.id,
                               !.from = row.status, !.next = next,
                               !.cv0 = ev.cur, !.st0 = StoredStatus(row.id),
                               !.after = IF last.op = "withdraw" /\ last.res = "ok"
                                            /\ last.pid = row.id
                                           THEN "withdraw" ELSE "none",
                               !.base = last.cv0]
     IN IF ~roster.eventStats.present
          THEN /\ roster' = [roster EXCEPT !.error = "eventMissing"]
               /\ last' = Returned(call, "eventMissing")
               /\ UNCHANGED tasks
          ELSE IF NotOwner(roster.user)
          THEN /\ roster' = [roster EXCEPT !.error = "notOwner"]
               /\ last' = Returned(call, "notOwner")
               /\ UNCHANGED tasks
          ELSE IF row.status = next
          THEN /\ last' = Returned(call, "same")
               /\ UNCHANGED <<roster, tasks>>
          ELSE IF ReinstateFull(row.status, next, roster.eventStats)
          THEN /\ roster' = [roster EXCEPT !.error = "errorFull"]
               /\ last' = Returned(call, "full")
               /\ UNCHANGED tasks
          ELSE /\ InFlight < lim
               /\ roster.changes < MaxChanges
               /\ roster' = [roster EXCEPT !.updatingId = row.id,
                                           !.error = "null",
                                           !.changes = @ + 1]
               /\ tasks' = Spawn(call)
               /\ UNCHANGED last
  /\ UNCHANGED <<ev, parts, favs, client, notify, form, ownerScreen>>

\* variant: every card offers every other status
OfferedAnyChange(row, next) ==
  /\ row \in RosterRowSet
  /\ roster.allowed
  /\ roster.updatingId # row.id
  /\ row.status # next
\* the action a card offers: active rows "withdrawn", withdrawn rows
\* "signed_up", attended rows none; the card being updated shows a spinner
Offered(row, next) ==
  /\ row \in RosterRowSet
  /\ roster.allowed
  /\ roster.updatingId # row.id
  /\ \/ row.status = "signed_up" /\ next = "withdrawn"
     \/ row.status = "withdrawn" /\ next = "signed_up"

PressSetStatus(row, next, lim) == Offered(row, next) /\ handleStatusChange(row, next, lim)
\* the handler called with a participant and a status no card offers
CallSetStatus(row, next, lim) == ~Offered(row, next) /\ handleStatusChange(row, next, lim)

\* the handler's catch and finally in ManageParticipantsScreen
RosterCaught(msg) == [roster EXCEPT !.error = msg, !.updatingId = NoId]

\* await updateDoc(participationRef, {status: nextStatus}); with delta = 0 the
\* handler goes on to its finally
SetStatusUpd(t) ==
  /\ t \in TaskSet /\ t.kind = "setStatus" /\ t.pc = "upd"
  /\ IF DocExists(parts, t.pid)
       THEN /\ parts' = SetStoredStatus(parts, t.pid, t.next)
            /\ notify' = IF parts[t.pid].status # t.next
                           THEN NotifyPart(notify, parts[t.pid].userId)
                           ELSE notify
            /\ tasks' = Replace(t, [t EXCEPT !.pc =
                          IF StatusDelta(t.from, t.next) # 0 THEN "inc" ELSE "fin"])
            /\ UNCHANGED <<roster, last>>
       ELSE /\ roster' = RosterCaught("notFound")
            /\ tasks' = Retire(t)
            /\ last' = Returned(t, "error")
            /\ UNCHANGED <<parts, notify>>
  /\ UNCHANGED <<ev, favs, client, form, ownerScreen>>

\* await updateDoc(eventRef, {currentVolunteers: increment(delta)})
SetStatusInc(t) ==
  /\ t \in TaskSet /\ t.kind = "setStatus" /\ t.pc = "inc"
  /\ IF EventExists
       THEN /\ ev' = Increment(ev, StatusDelta(t.from, t.next))
            /\ notify' = NotifyEvent(notify)
            /\ tasks' = Replace(t, [t EXCEPT !.pc = "fin"])
            /\ UNCHANGED <<roster, last>>
       ELSE /\ roster' = RosterCaught("notFound")
            /\ tasks' = Retire(t)
            /\ last' = Returned(t, "error")
            /\ UNCHANGED <<ev, notify>>
  /\ UNCHANGED <<parts, favs, client, form, ownerScreen>>

\* finally { setUpdatingId(null) }
SetStatusFin(t) ==
  /\ t \in TaskSet /\ t.kind = "setStatus" /\ t.pc = "fin"
  /\ roster' = [roster EXCEPT !.updatingId = NoId]
  /\ tasks' = Retire(t)
  /\ last' = Returned(t, "ok")
  /\ UNCHANGED <<ev, parts, favs, client, notify, form, ownerScreen>>


\* --------------------------------------------------- CreateEventScreen: edit
\* loadExisting (the effect of the edit form): getDoc(eventRef), then
\* setExistingVolunteers(data.currentVolunteers ?? 0); the form is shown to
\* the creator only (canEdit)
EditOpen ==
  /\ EventExists
  /\ form.user = OwnerId
  /\ ~form.open
  /\ form.edits < MaxEdits
  /\ form' = [form EXCEPT !.open = TRUE, !.existingVolunteers = ev.cur]
  /\ UNCHANGED <<ev, parts, favs, client, notify, roster, ownerScreen, tasks, last>>

EditInFlight == \E t \in TaskSet : t.kind = "edit"

\* handleSubmit, edit branch, up to its first await; numericMax > 0
handleSubmit(m, lim) ==
  /\ form.open
  /\ ~EditInFlight
  /\ m > 0
  /\ InFlight < lim
  /\ form' = [form EXCEPT !.saving = TRUE, !.error = "null"]
  /\ tasks' = Spawn([Task0 EXCEPT !.kind = "edit", !.c = form.user, !.pc = "get",
                                  !.newMax = m, !.cv0 = ev.cur])
  /\ UNCHANGED <<ev, parts, favs, client, notify, roster, ownerScreen, last>>

\* variant: a re-read that takes every user for the creator
createdByNobodyElse(user) == FALSE
\* existingData.createdBy !== appUser.id
createdByOther(user) == OwnerId # user

\* await getDoc(eventRef): the handler returns when the event is gone or is
\* another user's, after setError and setSaving(false)
EditGet(t) ==
  /\ t \in TaskSet /\ t.kind = "edit" /\ t.pc = "get"
  /\ IF ~EventExists
       THEN /\ form' = [form EXCEPT !.saving = FALSE, !.error = "errorLoadExisting"]
            /\ tasks' = Retire(t)
            /\ last' = Returned(t, "notFound")
       ELSE IF createdByOther(t.c)
       THEN /\ form' = [form EXCEPT !.saving = FALSE, !.error = "errorNotOwner"]
            /\ tasks' = Retire(t)
            /\ last' = Returned(t, "notOwner")
       ELSE /\ tasks' = Replace(t, [t EXCEPT !.pc = "upd"])
            /\ UNCHANGED <<form, last>>
  /\ UNCHANGED <<ev, parts, favs, client, notify, roster, ownerScreen>>

\* Math.min(existingVolunteers, numericMax)
MinOf(a, b) == IF a < b THEN a ELSE b

\* the fields an edit writes to the event document
EditedEvent(e, existing, m) == [e EXCEPT !.max = m, !.cur = MinOf(existing, m)]

\* await updateDoc(eventRef, {..., maxVolunteers: numericMax,
\*   currentVolunteers: Math.min(existingVolunteers, numericMax)});
\* setExistingVolunteers((prev) => Math.min(prev, numericMax))
EditUpd(t) ==
  /\ t \in TaskSet /\ t.kind = "edit" /\ t.pc = "upd"
  /\ IF EventExists
       THEN /\ ev' = EditedEvent(ev, form.existingVolunteers, t.newMax)
            /\ notify' = NotifyEvent(notify)
            /\ form' = [form EXCEPT !.existingVolunteers = MinOf(@, t.newMax)]
            /\ tasks' = Replace(t, [t EXCEPT !.pc = "fin"])
            /\ UNCHANGED last
       ELSE /\ form' = [form EXCEPT !.saving = FALSE, !.error = "notFound"]
            /\ tasks' = Retire(t)
            /\ last' = Returned(t, "error")
            /\ UNCHANGED <<ev, notify>>
  /\ UNCHANGED <<parts, favs, client, roster, ownerScreen>>

\* await updateDoc(eventRef, {imageUrls: urls}); navigation.goBack();
\* finally setSaving(false)
EditFin(t) ==
  /\ t \in TaskSet /\ t.kind = "edit" /\ t.pc = "fin"
  /\ tasks' = Retire(t)
  /\ IF EventExists
       THEN /\ form' = [form EXCEPT !.open = FALSE, !.edits = @ + 1, !.saving = FALSE]
            /\ last' = Returned(t, "ok")
       ELSE /\ form' = [form EXCEPT !.saving = FALSE, !.error = "notFound"]
            /\ last' = Returned(t, "error")
  /\ UNCHANGED <<ev, parts, favs, client, notify, roster, ownerScreen>>

\* ------------------------------------------ EventDetailsScreen: favourites
\* handleFavoriteToggle up to its await: deleteDoc when favoriteId is set,
\* addDoc otherwise; cap bounds the documents ever created
toggleFavorite(c, lim, cap) ==
  /\ client[c].event.present
  /\ client[c].signedIn
  /\ InFlight < lim
  /\ LET call == [Task0 EXCEPT !.kind = "favorite", !.c = c,
                               !.cv0 = Cardinality(FavDocs(favs, c)),
                               !.view0 = View(c),
                               !.after = IF last.op = "favorite" /\ last.res = "on"
                                            /\ last.c = c /\ last.cv0 = 0
                                           THEN "toggleOn" ELSE "none"]
     IN IF client[c].favoriteId # NoId
          THEN tasks' = Spawn([call EXCEPT !.pc = "del", !.pid = client[c].favoriteId])
          ELSE /\ Len(favs) + PendingAdds("favorite") < cap
               /\ tasks' = Spawn([call EXCEPT !.pc = "add"])
  /\ UNCHANGED <<ev, parts, favs, client, notify, roster, form, ownerScreen, last>>

handleFavoriteToggle(c, lim) == toggleFavorite(c, lim, MaxFavs)

\* variant: a deleteDoc that leaves the document
DeleteDocKeeps(coll, id) == coll
\* deleteDoc(ref): deleting a missing document succeeds
DeleteDoc(coll, id) ==
  IF id \in DOMAIN coll THEN [coll EXCEPT ![id].exists = FALSE] ELSE coll

\* await deleteDoc(favoriteRef)
FavoriteDel(t) ==
  /\ t \in TaskSet /\ t.kind = "favorite" /\ t.pc = "del"
  /\ favs' = DeleteDoc(favs, t.pid)
  /\ notify' = IF favs' # favs THEN NotifyFav(notify, favs[t.pid].userId) ELSE notify
  /\ tasks' = Replace(t, [t EXCEPT !.pc = "fin", !.pid = NoId])
  /\ UNCHANGED <<ev, parts, client, roster, form, ownerScreen, last>>

\* await addDoc(collection(db, "favorites"), {userId, eventId, createdAt})
FavoriteAdd(t) ==
  /\ t \in TaskSet /\ t.kind = "favorite" /\ t.pc = "add"
  /\ favs' = Append(favs, [userId |-> t.c, eventId |-> TheEvent, exists |-> TRUE])
  /\ notify' = NotifyFav(notify, t.c)
  /\ tasks' = Replace(t, [t EXCEPT !.pc = "fin", !.pid = Len(favs) + 1])
  /\ UNCHANGED <<ev, parts, client, roster, form, ownerScreen, last>>

\* setFavoriteId(null) after the delete, setFavoriteId(favoriteDoc.id) after the add
FavoriteFin(t) ==
  /\ t \in TaskSet /\ t.kind = "favorite" /\ t.pc = "fin"
  /\ client' = [client EXCEPT ![t.c].favoriteId = t.pid]
  /\ tasks' = Retire(t)
  /\ last' = Returned(t, IF t.pid = NoId THEN "off" ELSE "on")
  /\ UNCHANGED <<ev, parts, favs, notify, roster, form, ownerScreen>>


\* -------------------------------------------- EventDetailsScreen: delete
\* performDeleteEvent up to its first await: setError(null); setDeleting(true)
performDeleteEvent(lim) ==
  /\ ev.state # "none"
  /\ InFlight < lim
  /\ ownerScreen' = [ownerScreen EXCEPT !.deleting = TRUE, !.error = "null"]
  /\ tasks' = Spawn([Task0 EXCEPT !.kind = "delete", !.c = ownerScreen.user, !.pc = "get",
                                  !.cv0 = ev.cur])
  /\ UNCHANGED <<ev, parts, favs, client, notify, roster, form, last>>

\* {isOwner && ... onPress={deleting ? () => {} : handleDeleteEvent}}, the
\* organiser's screen showing the event
PressDelete(lim) == EventExists /\ ~ownerScreen.deleting /\ performDeleteEvent(lim)

\* const snapshot = await getDoc(eventRef); if (!snapshot.exists()) {...; return};
\* if (eventData.createdBy !== appUser.id) {...; return}
DeleteGet(t) ==
  /\ t \in TaskSet /\ t.kind = "delete" /\ t.pc = "get"
  /\ IF ~EventExists
       THEN /\ ownerScreen' = [ownerScreen EXCEPT !.deleting = FALSE, !.error = "notFound"]
            /\ tasks' = Retire(t)
            /\ last' = Returned(t, "notFound")
       ELSE IF createdByOther(t.c)
       THEN /\ ownerScreen' = [ownerScreen EXCEPT !.deleting = FALSE,
                                                  !.error = "errorNotOwner"]
            /\ tasks' = Retire(t)
            /\ last' = Returned(t, "notOwner")
       ELSE /\ tasks' = Replace(t, [t EXCEPT !.pc = "queryP"])
            /\ UNCHANGED <<ownerScreen, last>>
  /\ UNCHANGED <<ev, parts, favs, client, notify, roster, form>>

\* await getDocs(query(participations, where("eventId", "==", event.id)))
DeleteQueryParticipations(t) ==
  /\ t \in TaskSet /\ t.kind = "delete" /\ t.pc = "queryP"
  /\ tasks' = Replace(t, [t EXCEPT !.pc = "queryF", !.snapP = EventParts(parts)])
  /\ UNCHANGED <<ev, parts, favs, client, notify, roster, form, ownerScreen, last>>

\* await getDocs(query(favorites, where("eventId", "==", event.id))), then
\* Promise.all issues every cascade delete
DeleteQueryFavorites(t) ==
  /\ t \in TaskSet /\ t.kind = "delete" /\ t.pc = "queryF"
  /\ LET u == [t EXCEPT !.snapF = EventFavs(favs), !.todoF = EventFavs(favs),
                        !.todoP = t.snapP]
     IN tasks' = (Retire(t)) (+) SetToBag({[u EXCEPT !.pc =
                    IF u.todoP = {} /\ u.todoF = {} THEN "delEvent" ELSE "cascade"]})
  /\ UNCHANGED <<ev, parts, favs, client, notify, roster, form, ownerScreen, last>>

\* variant: a cascade that goes on after a rejected delete
SettledIgnoringFailure(t, u) ==
  IF u.todoP = {} /\ u.todoF = {}
    THEN Replace(t, [u EXCEPT !.pc = "delEvent"])
    ELSE Replace(t, u)
\* the handler once Promise.all has settled every delete: it goes on to the
\* event document unless a delete was rejected
Settled(t, u) ==
  IF u.todoP = {} /\ u.todoF = {}
    THEN IF u.failed THEN Retire(t) ELSE Replace(t, [u EXCEPT !.pc = "delEvent"])
    ELSE Replace(t, u)

\* one deleteDoc(d.ref) of participationSnap.docs is applied
CascadeParticipation(t, id) ==
  /\ t \in TaskSet /\ t.kind = "delete" /\ t.pc = "cascade"
  /\ id \in t.todoP
  /\ parts' = DeleteDoc(parts, id)
  /\ notify' = IF parts' # parts THEN NotifyPart(notify, parts[id].userId) ELSE notify
  /\ tasks' = Settled(t, [t EXCEPT !.todoP = @ \ {id}])
  /\ UNCHANGED <<ev, favs, client, roster, form, ownerScreen, last>>

\* one deleteDoc(d.ref) of favoriteSnap.docs is applied
CascadeFavorite(t, id) ==
  /\ t \in TaskSet /\ t.kind = "delete" /\ t.pc = "cascade"
  /\ id \in t.todoF
  /\ favs' = DeleteDoc(favs, id)
  /\ notify' = IF favs' # favs THEN NotifyFav(notify, favs[id].userId) ELSE notify
  /\ tasks' = Settled(t, [t EXCEPT !.todoF = @ \ {id}])
  /\ UNCHANGED <<ev, parts, client, roster, form, ownerScreen, last>>

\* one cascade delete is rejected: Promise.all rejects at the first one and
\* the handler runs its catch and finally; the other deletes stay issued
CascadeFails(t, id) ==
  /\ t \in TaskSet /\ t.kind = "delete" /\ t.pc = "cascade"
  /\ id \in t.todoP \cup t.todoF
  /\ ownerScreen' = IF t.failed THEN ownerScreen
                    ELSE [ownerScreen EXCEPT !.deleting = FALSE,
                                             !.error = "storeUnavailable"]
  /\ last' = IF t.failed THEN last ELSE Returned(t, "error")
  /\ \/ /\ id \in t.todoP
        /\ tasks' = Settled(t, [t EXCEPT !.todoP = @ \ {id}, !.failed = TRUE])
     \/ /\ id \in t.todoF
        /\ tasks' = Settled(t, [t EXCEPT !.todoF = @ \ {id}, !.failed = TRUE])
  /\ UNCHANGED <<ev, parts, favs, client, notify, roster, form>>

\* await deleteDoc(eventRef); Alert; navigate; finally setDeleting(false)
DeleteEventDoc(t) ==
  /\ t \in TaskSet /\ t.kind = "delete" /\ t.pc = "delEvent"
  /\ ev' = [ev EXCEPT !.state = "deleted"]
  /\ notify' = IF EventExists THEN NotifyEvent(notify) ELSE notify
  /\ ownerScreen' = [ownerScreen EXCEPT !.deleting = FALSE]
  /\ tasks' = Retire(t)
  /\ last' = Returned(t, "ok")
  /\ UNCHANGED <<parts, favs, client, roster, form>>

\* ------------------------------------------------------- store failures
\* The request a handler awaits is rejected (the backend is unavailable):
\* the handler's catch sets the error and its finally clears the flag.
AwaitsStore(t) ==
  \/ t.kind \in {"signUp", "favorite"} /\ t.pc \in {"add", "inc", "del"}
  \/ t.kind \in {"withdraw", "setStatus"} /\ t.pc \in {"upd", "inc"}
  \/ t.kind = "edit" /\ t.pc \in {"get", "upd", "fin"}
  \/ t.kind = "delete" /\ t.pc \in {"get", "queryP", "queryF", "delEvent"}

StoreFails(t) ==
  /\ t \in TaskSet
  /\ AwaitsStore(t)
  /\ tasks' = Retire(t)
  /\ last' = Returned(t, "error")
  /\ client' = IF t.kind \in {"signUp", "withdraw", "favorite"}
                 THEN Caught(t, "storeUnavailable") ELSE client
  /\ roster' = IF t.kind = "setStatus" THEN RosterCaught("storeUnavailable") ELSE roster
  /\ ownerScreen' = IF t.kind = "delete"
                      THEN [ownerScreen EXCEPT !.deleting = FALSE,
                                               !.error = "storeUnavailable"]
                      ELSE ownerScreen
  /\ form' = IF t.kind = "edit"
               THEN [form EXCEPT !.saving = FALSE, !.error = "storeUnavailable"]
               ELSE form
  /\ UNCHANGED <<ev, parts, favs, notify>>

\* -------------------------------------------------------- specifications
Rows == RosterRowSet
Solo == CHOOSE c \in Volunteers : TRUE

DetailsListeners ==
  \/ \E c \in Volunteers : EventSnapshot(c)
  \/ \E c \in Volunteers : ParticipationSnapshot(c)

SignUpSteps ==
  \/ \E t \in TaskSet : SignUpAdd(t)
  \/ \E t \in TaskSet : SignUpInc(t)
  \/ \E t \in TaskSet : SignUpFin(t)

WithdrawSteps ==
  \/ \E t \in TaskSet : WithdrawUpd(t)
  \/ \E t \in TaskSet : WithdrawInc(t)
  \/ \E t \in TaskSet : WithdrawFin(t)

RosterSteps ==
  \/ RosterEventSnapshot
  \/ RosterSnapshot
  \/ \E t \in TaskSet : SetStatusUpd(t)
  \/ \E t \in TaskSet : SetStatusInc(t)
  \/ \E t \in TaskSet : SetStatusFin(t)

EditSteps ==
  \/ EditOpen
  \/ \E t \in TaskSet : EditGet(t)
  \/ \E t \in TaskSet : EditUpd(t)
  \/ \E t \in TaskSet : EditFin(t)

FavoriteSteps ==
  \/ \E c \in Volunteers : FavoritesSnapshot(c)
  \/ \E t \in TaskSet : FavoriteDel(t)
  \/ \E t \in TaskSet : FavoriteAdd(t)
  \/ \E t \in TaskSet : FavoriteFin(t)

DeleteSteps ==
  \/ \E t \in TaskSet : DeleteGet(t)
  \/ \E t \in TaskSet : DeleteQueryParticipations(t)
  \/ \E t \in TaskSet : DeleteQueryFavorites(t)
  \/ \E t \in TaskSet : \E id \in t.todoP : CascadeParticipation(t, id)
  \/ \E t \in TaskSet : \E id \in t.todoF : CascadeFavorite(t, id)
  \/ \E t \in TaskSet : DeleteEventDoc(t)

\* Spec: one volunteer's sign-ups and withdrawals and the organiser's roster,
\* through the rendered controls, one handler call at a time; snapshots are
\* delivered at any time later, so every screen may act on a stale view.
Next ==
  \/ \E m \in 1..MaxCap : CreateEvent(m)
  \/ EventSnapshot(Solo)
  \/ ParticipationSnapshot(Solo)
  \/ SignUpSteps \/ WithdrawSteps \/ RosterSteps
  \/ PressSignUp(Solo, 1)
  \/ PressWithdraw(Solo, 1)
  \/ \E row \in Rows : \E next \in Statuses : PressSetStatus(row, next, 1)
Spec == Init /\ [][Next]_vars

\* SpecDetails: the handlers of EventDetailsScreen called in any state of the
\* screen, one call at a time, on a store that may reject any request.
NextDetails ==
  \/ \E m \in 1..MaxCap : CreateEvent(m)
  \/ DetailsListeners \/ SignUpSteps \/ WithdrawSteps
  \/ \E c \in Volunteers : PressSignUp(c, 1)
  \/ \E c \in Volunteers : PressWithdraw(c, 1)
  \/ \E c \in Volunteers : CallSignUp(c, 1)
  \/ \E t \in TaskSet : StoreFails(t)
SpecDetails == Init /\ [][NextDetails]_vars

\* SpecSolo: one volunteer's session alone with the store; the handlers it
\* starts through the rendered controls run concurrently.
NextSolo ==
  \/ \E m \in 1..MaxCap : CreateEvent(m)
  \/ EventSnapshot(Solo)
  \/ ParticipationSnapshot(Solo)
  \/ SignUpSteps \/ WithdrawSteps
  \/ PressSignUp(Solo, MaxTasks)
  \/ PressWithdraw(Solo, MaxTasks)
SpecSolo == Init /\ [][NextSolo]_vars

\* SpecUI: the volunteers' sessions with concurrent handlers, through the
\* rendered controls; the store rejects no request.
NextUI ==
  \/ \E m \in 1..MaxCap : CreateEvent(m)
  \/ DetailsListeners \/ SignUpSteps \/ WithdrawSteps
  \/ \E c \in Volunteers : PressSignUp(c, MaxTasks)
  \/ \E c \in Volunteers : PressWithdraw(c, MaxTasks)
SpecUI == Init /\ [][NextUI]_vars

\* SpecEdit: sign-ups and the organiser's edit form, one handler call at a
\* time; the store rejects no request.
NextEdit ==
  \/ \E m \in 1..MaxCap : CreateEvent(m)
  \/ DetailsListeners \/ SignUpSteps \/ EditSteps
  \/ \E c \in Volunteers : PressSignUp(c, 1)
  \/ \E m \in 1..MaxCap : handleSubmit(m, 1)
SpecEdit == Init /\ [][NextEdit]_vars

\* SpecFav: favourite toggles, one handler call at a time, on a store that
\* may reject any request.
NextFav ==
  \/ \E m \in 1..MaxCap : CreateEvent(m)
  \/ \E c \in Volunteers : EventSnapshot(c)
  \/ FavoriteSteps
  \/ \E c \in Volunteers : handleFavoriteToggle(c, 1)
  \/ \E t \in TaskSet : StoreFails(t)
SpecFav == Init /\ [][NextFav]_vars


\* SpecDelete: the organiser deletes the event while one volunteer signs up
\* and toggles the favourite; handlers run concurrently and any cascade
\* delete may be rejected.
NextDelete ==
  \/ \E m \in 1..MaxCap : CreateEvent(m)
  \/ EventSnapshot(Solo)
  \/ ParticipationSnapshot(Solo)
  \/ SignUpSteps \/ FavoriteSteps \/ DeleteSteps
  \/ PressSignUp(Solo, MaxTasks)
  \/ handleFavoriteToggle(Solo, MaxTasks)
  \/ PressDelete(MaxTasks)
  \/ \E t \in TaskSet : \E id \in t.todoP \cup t.todoF : CascadeFails(t, id)
SpecDelete == Init /\ [][NextDelete]_vars

\* SpecRoster: the roster aggregator as a function of the snapshot.  The
\* participations collection holds any documents of the event: any status
\* (or none), any creation time (or none), in any order.
StoredTimes ==
  {[has |-> FALSE, ms |-> 0]} \cup {[has |-> TRUE, ms |-> m] : m \in 0..MaxTime}
StoredDocs ==
  [userId : {Solo}, eventId : {TheEvent}, status : Statuses \cup {"missing"},
   exists : {TRUE}, createdAt : StoredTimes]
Collections == UNION {[1..n -> StoredDocs] : n \in 0..MaxDocs}

InitRoster ==
  /\ ev = [state |-> "live", cur |-> 0, max |-> MaxCap]
  /\ parts \in Collections
  /\ favs = << >>
  /\ client = [c \in Volunteers |-> Session(c)]
  /\ notify = [c \in Volunteers \cup {OwnerId} |->
                 [event |-> c = OwnerId, part |-> c = OwnerId, fav |-> FALSE]]
  /\ roster = Roster0
  /\ form = Form0
  /\ ownerScreen = OwnerScreen0
  /\ tasks = EmptyBag
  /\ last = Last0

NextRoster == RosterEventSnapshot \/ RosterSnapshot
SpecRoster == InitRoster /\ [][NextRoster]_vars


\* SpecViewer: ManageParticipantsScreen mounted on an existing event by
\* nobody, by the organiser or by another user; both effects run on mount,
\* `allowed` starting true.
Viewers == {NoUser, OwnerId} \cup Volunteers

InitViewer ==
  /\ ev = [state |-> "live", cur |-> 0, max |-> MaxCap]
  /\ parts \in Collections
  /\ favs = << >>
  /\ client = [c \in Volunteers |-> Session(c)]
  /\ \E u \in Viewers :
       /\ roster = [Roster0 EXCEPT !.user = u]
       /\ notify = [c \in Volunteers \cup {OwnerId} |->
                      [event |-> c = OwnerId, part |-> c = OwnerId /\ u # NoUser,
                       fav |-> FALSE]]
  /\ form = Form0
  /\ ownerScreen = OwnerScreen0
  /\ tasks = EmptyBag
  /\ last = Last0

SpecViewer == InitViewer /\ [][NextRoster]_vars


\* SpecCalls: handleStatusChange called by any user of the roster screen with
\* any participant of the event and any status, offered by a card or not, one
\* call at a time.  The store starts with an existing event and up to
\* MaxParts participations of any status, the counter agreeing with them.
SmallDocs ==
  [userId : {Solo}, eventId : {TheEvent}, status : Statuses, exists : {TRUE},
   createdAt : {[has |-> TRUE, ms |-> 0]}]
SmallCollections == UNION {[1..n -> SmallDocs] : n \in 0..MaxParts}
StoredRows == {RowOf(parts, i) : i \in EventParts(parts)}

InitCalls ==
  /\ parts \in SmallCollections
  /\ \E m \in 1..MaxCap :
       /\ ActiveCount <= m
       /\ ev = [state |-> "live", cur |-> ActiveCount, max |-> m]
  /\ favs = << >>
  /\ client = [c \in Volunteers |-> Session(c)]
  /\ \E u \in Viewers :
       /\ roster = [Roster0 EXCEPT !.user = u]
       /\ notify = [c \in Volunteers \cup {OwnerId} |->
                      [event |-> c = OwnerId, part |-> c = OwnerId /\ u # NoUser,
                       fav |-> FALSE]]
  /\ form = Form0
  /\ ownerScreen = OwnerScreen0
  /\ tasks = EmptyBag
  /\ last = Last0

NextCalls ==
  \/ RosterSteps
  \/ \E row \in Rows : \E next \in Statuses : PressSetStatus(row, next, 1)
  \/ \E row \in Rows \cup StoredRows : \E next \in Statuses : CallSetStatus(row, next, 1)
SpecCalls == InitCalls /\ [][NextCalls]_vars


\* SpecGuest: EventDetailsScreen with nobody signed in on one session, next
\* to the signed-in volunteers; handleSignUp is called in any state of the
\* screen, one call at a time.
InitGuest ==
  /\ ev = [state |-> "none", cur |-> 0, max |-> 0]
  /\ parts = << >>
  /\ favs = << >>
  /\ client = [c \in Volunteers |->
                 IF c # Solo THEN Session(c)
                 ELSE [Client0 EXCEPT !.auth.loading = FALSE]]
  /\ notify = [c \in Volunteers \cup {OwnerId} |->
                 [event |-> FALSE, part |-> FALSE, fav |-> FALSE]]
  /\ roster = Roster0
  /\ form = Form0
  /\ ownerScreen = OwnerScreen0
  /\ tasks = EmptyBag
  /\ last = Last0

NextGuest ==
  \/ \E m \in 1..MaxCap : CreateEvent(m)
  \/ DetailsListeners \/ SignUpSteps
  \/ \E c \in Volunteers : PressSignUp(c, 1)
  \/ \E c \in Volunteers : CallSignUp(c, 1)
SpecGuest == InitGuest /\ [][NextGuest]_vars


\* SpecLife: a volunteer's screen and the organiser's roster on a store that
\* already holds participations of any status, through the rendered
\* controls, one handler call at a time, snapshots delivered late.
InitLife ==
  /\ parts \in SmallCollections
  /\ \E m \in 1..MaxCap :
       /\ ActiveCount <= m
       /\ ev = [state |-> "live", cur |-> ActiveCount, max |-> m]
  /\ favs = << >>
  /\ client = [c \in Volunteers |-> Session(c)]
  /\ notify = [c \in Volunteers \cup {OwnerId} |->
                 [event |-> c \in {Solo, OwnerId}, part |-> c \in {Solo, OwnerId},
                  fav |-> FALSE]]
  /\ roster = Roster0
  /\ form = Form0
  /\ ownerScreen = OwnerScreen0
  /\ tasks = EmptyBag
  /\ last = Last0

NextLife ==
  \/ EventSnapshot(Solo)
  \/ ParticipationSnapshot(Solo)
  \/ SignUpSteps \/ WithdrawSteps \/ RosterSteps
  \/ PressSignUp(Solo, 1)
  \/ PressWithdraw(Solo, 1)
  \/ \E row \in Rows : \E next \in Statuses : PressSetStatus(row, next, 1)
SpecLife == InitLife /\ [][NextLife]_vars


\* SpecCascade: every operation on participations, one handler call at a
\* time: a volunteer's sign-up, withdrawal and favourite toggle, the
\* organiser's roster and the deletion of the event.  The store starts with
\* a participation of another event, alone or after one of this event.
MixedDocs ==
  [userId : {Solo}, eventId : {TheEvent, OtherEvent}, status : {"signed_up"},
   exists : {TRUE}, createdAt : {[has |-> TRUE, ms |-> 0]}]
MixedCollections ==
  {ps \in UNION {[1..n -> MixedDocs] : n \in 1..MaxParts} :
     ps[Len(ps)].eventId = OtherEvent /\ (Len(ps) > 1 => ps[1].eventId = TheEvent)}

InitCascade ==
  /\ parts \in MixedCollections
  /\ ev = [state |-> "live", cur |-> ActiveCount, max |-> MaxCap]
  /\ favs = << >>
  /\ client = [c \in Volunteers |-> Session(c)]
  /\ notify = [c \in Volunteers \cup {OwnerId} |->
                 [event |-> c \in {Solo, OwnerId}, part |-> c \in {Solo, OwnerId},
                  fav |-> FALSE]]
  /\ roster = Roster0
  /\ form = Form0
  /\ ownerScreen = OwnerScreen0
  /\ tasks = EmptyBag
  /\ last = Last0

NextCascade ==
  \/ EventSnapshot(Solo)
  \/ ParticipationSnapshot(Solo)
  \/ SignUpSteps \/ WithdrawSteps \/ RosterSteps \/ FavoriteSteps \/ DeleteSteps
  \/ PressSignUp(Solo, 1)
  \/ PressWithdraw(Solo, 1)
  \/ handleFavoriteToggle(Solo, 1)
  \/ \E row \in Rows : \E next \in Statuses : PressSetStatus(row, next, 1)
  \/ PressDelete(1)
SpecCascade == InitCascade /\ [][NextCascade]_vars


\* SpecFavSolo: one volunteer toggles the favourite, a second press possible
\* while the first one's request is still in flight.
NextFavSolo ==
  \/ \E m \in 1..MaxCap : CreateEvent(m)
  \/ EventSnapshot(Solo)
  \/ FavoriteSteps
  \/ toggleFavorite(Solo, MaxTasks, MaxFavsSolo)
SpecFavSolo == Init /\ [][NextFavSolo]_vars


\* SpecRace: every volunteer's session signs up through the rendered button,
\* the handlers of different sessions running concurrently.
NextRace ==
  \/ \E m \in 1..MaxCap : CreateEvent(m)
  \/ DetailsListeners \/ SignUpSteps
  \/ \E c \in Volunteers : PressSignUp(c, MaxTasks)
SpecRace == Init /\ [][NextRace]_vars


\* SpecOrder: one volunteer's session and the organiser's roster, one handler
\* call at a time, on a store that may reject any request.
NextOrder ==
  \/ \E m \in 1..MaxCap : CreateEvent(m)
  \/ EventSnapshot(Solo)
  \/ ParticipationSnapshot(Solo)
  \/ SignUpSteps \/ WithdrawSteps \/ RosterSteps
  \/ PressSignUp(Solo, 1)
  \/ PressWithdraw(Solo, 1)
  \/ \E row \in Rows : \E next \in Statuses : PressSetStatus(row, next, 1)
  \/ \E t \in TaskSet : StoreFails(t)
SpecOrder == Init /\ [][NextOrder]_vars


\* SpecOwner: the edit and delete handlers called by any user, the creator or
\* another one, also where the screen does not offer them, on an event that
\* a volunteer signs up to and marks as favourite and that may have been
\* deleted meanwhile; one handler call at a time.
Users == {OwnerId} \cup Volunteers

InitOwner ==
  /\ ev = [state |-> "live", cur |-> 0, max |-> MaxCap]
  /\ parts = << >>
  /\ favs = << >>
  /\ client = [c \in Volunteers |-> Session(c)]
  /\ notify = [c \in Volunteers \cup {OwnerId} |->
                 [event |-> c = Solo, part |-> FALSE, fav |-> FALSE]]
  /\ roster = Roster0
  /\ \E u \in Users : form = [Form0 EXCEPT !.user = u, !.open = u # OwnerId]
  /\ \E u \in Users : ownerScreen = [OwnerScreen0 EXCEPT !.user = u]
  /\ tasks = EmptyBag
  /\ last = Last0

NextOwner ==
  \/ EventSnapshot(Solo)
  \/ ParticipationSnapshot(Solo)
  \/ SignUpSteps \/ FavoriteSteps \/ EditSteps \/ DeleteSteps
  \/ PressSignUp(Solo, 1)
  \/ handleFavoriteToggle(Solo, 1)
  \/ \E m \in 1..MaxCap : handleSubmit(m, 1)
  \/ performDeleteEvent(1)
SpecOwner == InitOwner /\ [][NextOwner]_vars


\* SpecMyEvents: MyEventsScreen of one volunteer, mounted and torn down at any
\* time, while the volunteer signs up, withdraws and toggles the favourite on
\* the event's screen and the organiser deletes the event; one handler call
\* at a time.  The store
\* starts with a participation of the volunteer in another event.
InitMyEvents ==
  /\ parts \in MixedCollections
  /\ ev = [state |-> "live", cur |-> ActiveCount, max |-> MaxCap]
  /\ favs = << >>
  /\ client = [c \in Volunteers |-> Session(c)]
  /\ notify = [c \in Volunteers \cup {OwnerId} |->
                 [event |-> c = Solo, part |-> c = Solo, fav |-> FALSE]]
  /\ roster = Roster0
  /\ form = Form0
  /\ ownerScreen = OwnerScreen0
  /\ tasks = EmptyBag
  /\ last = Last0

MyEventsSteps ==
  \/ MyEventsMount(Solo)
  \/ MyParticipationsSnapshot(Solo)
  \/ \E e \in EventIds : MyEventSnapshot(Solo, e)
  \/ MyEventsUnmount(Solo)

NextMyEvents ==
  \/ EventSnapshot(Solo)
  \/ ParticipationSnapshot(Solo)
  \/ SignUpSteps \/ WithdrawSteps \/ FavoriteSteps \/ DeleteSteps \/ MyEventsSteps
  \/ PressSignUp(Solo, 1)
  \/ PressWithdraw(Solo, 1)
  \/ handleFavoriteToggle(Solo, 1)
  \/ PressDelete(1)
SpecMyEvents == InitMyEvents /\ [][NextMyEvents]_vars


\* SpecAuth: AuthProvider of one session from the start of the app: the auth
\* state changes between signed out and the accounts at any time, also while
\* an earlier callback is still awaiting the store.
InitAuth ==
  /\ ev = [state |-> "none", cur |-> 0, max |-> 0]
  /\ parts = << >>
  /\ favs = << >>
  /\ client = [c \in Volunteers |-> IF c = Solo THEN Client0 ELSE Session(c)]
  /\ notify = [c \in Volunteers \cup {OwnerId} |->
                 [event |-> FALSE, part |-> FALSE, fav |-> FALSE]]
  /\ roster = Roster0
  /\ form = Form0
  /\ ownerScreen = OwnerScreen0
  /\ tasks = EmptyBag
  /\ last = Last0

NextAuth ==
  \/ \E u \in Volunteers \cup {NoUser} : AuthChanged(Solo, u)
  \/ \E t \in TaskSet : AuthGetDoc(t)
  \/ \E t \in TaskSet : AuthSetDoc(t)
  \/ \E t \in TaskSet : AuthSubscribe(t)
  \/ \E u \in Volunteers : AuthProfileSnapshot(Solo, u)
SpecAuth == InitAuth /\ [][NextAuth]_vars


\* ================================================================ claims

\* C1: immediately after a successful signUp exactly one signed_up
\* Participation exists for the (user, event) pair and the stored
\* currentVolunteers is exactly 1 higher than before the call, whatever that
\* client did before, a second signUp started before the first one finished
\* included.
C1_SignUpExactlyOne ==
  [][\A t \in TaskSet :
       SignUpFin(t) =>
         /\ Cardinality(SignedUpDocs(parts', t.c)) = 1
         /\ ev'.cur = t.cv0 + 1]_vars

\* C2: signUp called while the event the screen shows is full
\* (currentVolunteers >= maxVolunteers) fails with the capacity error and
\* writes nothing: no Participation is created, the stored counter is
\* unchanged, and no request is left in flight.
C2_SignUpFullRejected ==
  [][\A c \in Volunteers :
       (handleSignUp(c, 1) /\ client[c].event.cur >= client[c].event.max) =>
         /\ client'[c].error = "errorFull"
         /\ parts' = parts /\ ev' = ev /\ favs' = favs
         /\ tasks' = tasks]_vars

C2_Witness ==
  /\ last.op = "signUp" /\ last.res = "full"
  /\ client[last.c].error = "errorFull"
  /\ EventExists /\ ev.cur = ev.max
  /\ client[last.c].event.cur = ev.cur

\* C3: after a successful withdraw of a participation that was signed_up when
\* withdraw was called, the record is withdrawn, the stored currentVolunteers
\* is exactly 1 lower than when it was called, and the screen has isSignedUp
\* false and participationId cleared.
C3_WithdrawEffect ==
  [][\A t \in TaskSet :
       (WithdrawFin(t) /\ t.st0 = "signed_up") =>
         /\ parts'[t.pid].status = "withdrawn"
         /\ ev'.cur = t.cv0 - 1
         /\ ~client'[t.c].isSignedUp
         /\ client'[t.c].participationId = NoId]_vars

C3_Witness ==
  /\ last.op = "withdraw" /\ last.res = "ok" /\ last.st0 = "signed_up"
  /\ last.cv0 = 1 /\ ev.cur = 0
  /\ parts[last.pid].status = "withdrawn"
  /\ ~client[last.c].isSignedUp

\* C4: round trip: a successful withdraw followed immediately by the
\* organiser's successful setStatus(participation, signed_up) leaves the
\* stored currentVolunteers at its value before the withdrawal and the
\* participation signed_up.
C4_RoundTrip ==
  [][\A t \in TaskSet :
       (SetStatusFin(t) /\ t.next = "signed_up" /\ t.after = "withdraw") =>
         /\ ev'.cur = t.base
         /\ parts'[t.pid].status = "signed_up"]_vars

C4_Witness ==
  /\ last.op = "setStatus" /\ last.res = "ok" /\ last.after = "withdraw"
  /\ parts[last.pid].status = "signed_up"
  /\ ev.cur = last.cv0 + 1
  /\ ev.cur > 0

\* C5: a reinstatement (setStatus to signed_up of a row that is not
\* signed_up) on an event whose currentVolunteers has reached maxVolunteers
\* on the roster screen fails with the event-full error and changes neither
\* the stored status nor the stored counter.
C5_ReinstateFullRejected ==
  [][\A row \in Rows :
       (/\ handleStatusChange(row, "signed_up", 1)
        /\ row.status # "signed_up"
        /\ roster.eventStats.present
        /\ roster.eventStats.cur >= roster.eventStats.max) =>
         /\ roster'.error = "errorFull"
         /\ parts' = parts /\ ev' = ev
         /\ tasks' = tasks]_vars

C5_Witness ==
  /\ last.op = "setStatus" /\ last.res = "full"
  /\ roster.error = "errorFull"
  /\ parts[last.pid].status = "withdrawn"
  /\ EventExists /\ ev.cur = ev.max
  /\ tasks = EmptyBag

\* C6: whenever no operation is in flight, the stored currentVolunteers of
\* the event equals the number of its Participation records with status
\* signed_up.
C6_CounterTracksActive ==
  (tasks = EmptyBag /\ EventExists) => ev.cur = ActiveCount

\* C7: in every reachable state of the store the event satisfies
\* 0 <= currentVolunteers <= maxVolunteers.
C7_CounterInRange ==
  EventExists => (0 <= ev.cur /\ ev.cur <= ev.max)

\* C8: the event document is deleted only after every Participation and
\* Favorite record that the cascade queries returned has been deleted, and
\* never by a deletion one of whose cascade deletes was rejected.
C8_CascadeBeforeEvent ==
  [][(ev.state = "live" /\ ev'.state = "deleted") =>
       \E t \in TaskSet :
         /\ t.kind = "delete" /\ t.pc = "delEvent"
         /\ DeleteEventDoc(t)
         /\ ~t.failed
         /\ \A i \in t.snapP : ~parts[i].exists
         /\ \A i \in t.snapF : ~favs[i].exists]_vars

C8_Witness ==
  /\ ev.state = "deleted"
  /\ last.op = "delete" /\ last.res = "ok"
  /\ \E i \in DOMAIN parts : ~parts[i].exists
  /\ \E i \in DOMAIN favs : ~favs[i].exists

\* C9: toggling the favourite on, starting with no Favorite record for the
\* pair, and then off once the first toggle has completed, leaves no Favorite
\* record for the pair and favoriteId null.
C9_ToggleTwice ==
  [][\A t \in TaskSet :
       (FavoriteFin(t) /\ t.pid = NoId /\ t.after = "toggleOn") =>
         /\ FavDocs(favs', t.c) = {}
         /\ client'[t.c].favoriteId = NoId]_vars

C9_Witness ==
  /\ last.op = "favorite" /\ last.res = "off" /\ last.after = "toggleOn"
  /\ FavDocs(favs, last.c) = {}
  /\ client[last.c].favoriteId = NoId
  /\ \E i \in DOMAIN favs : favs[i].userId = last.c /\ ~favs[i].exists

\* C10: the three buckets partition the rows of a roster snapshot: the rows
\* are the documents of the snapshot, one row each, and every row whose
\* status is signed_up, withdrawn or attended is in the bucket of its status,
\* once, and in no other bucket.
Occurrences(seq, row) == Cardinality({i \in DOMAIN seq : seq[i] = row})
Bucket(st) ==
  CASE st = "signed_up" -> activeParticipants
    [] st = "withdrawn" -> withdrawnParticipants
    [] st = "attended" -> attendedParticipants

C10_BucketsPartition ==
  (roster.allowed /\ ~notify[OwnerId].part) =>
    /\ {roster.participants[i].id : i \in DOMAIN roster.participants} = EventParts(parts)
    /\ Len(roster.participants) = Cardinality(EventParts(parts))
    /\ \A row \in Rows :
         row.status \in Statuses =>
           \A st \in Statuses :
             Occurrences(Bucket(st), row) = IF st = row.status THEN 1 ELSE 0
    /\ Len(activeParticipants) + Len(withdrawnParticipants)
         + Len(attendedParticipants) = Len(roster.participants)

C10_Witness ==
  /\ Len(roster.participants) = MaxDocs
  /\ Len(activeParticipants) > 0
  /\ Len(withdrawnParticipants) > 0
  /\ Len(attendedParticipants) > 0
  /\ \E i \in DOMAIN parts : parts[i].status = "missing"

\* C11: on the roster screen of a user who is not the event's createdBy, or
\* of nobody, no participation subscription is ever active, the participant
\* list is always empty, and once the event has been read the not-owner or
\* auth-required condition is shown.
C11_OnlyOwnerSubscribes ==
  roster.user # OwnerId =>
    /\ ~RosterSubscribed
    /\ roster.participants = << >>
    /\ roster.eventStats.present => roster.error \in {"notOwner", "authRequired"}

\* C12: the delta setStatus applies to the counter is +1 exactly when the
\* stored record moves into signed_up, -1 exactly when it moves out of
\* signed_up and 0 otherwise: it equals the change the status write makes to
\* whether the stored record is signed_up; with delta 0 the handler issues no
\* write to the event document.
SignedUpChange(before, after, id) ==
  (IF after[id].status = "signed_up" THEN 1 ELSE 0)
    - (IF before[id].status = "signed_up" THEN 1 ELSE 0)

C12_DeltaMatchesChange ==
  [][\A t \in TaskSet :
       (SetStatusUpd(t) /\ DocExists(parts, t.pid)) =>
         /\ StatusDelta(t.from, t.next) = SignedUpChange(parts, parts', t.pid)
         /\ StatusDelta(t.from, t.next) = 0 =>
               \A u \in BagToSet(tasks') : u.kind = "setStatus" => u.pc = "fin"]_vars

\* C13: setStatus called by a user who is not the event's owner reports
\* not-owner, and setStatus called with the participant's current status
\* returns silently; in both cases nothing is written: the participations
\* and the event document are unchanged and no request is in flight.
C13_RefusedWithoutWrite ==
  [][\A row \in Rows \cup StoredRows : \A next \in Statuses :
       (/\ handleStatusChange(row, next, 1)
        /\ roster.eventStats.present
        /\ (roster.user # OwnerId \/ row.status = next)) =>
         /\ parts' = parts /\ ev' = ev /\ tasks' = tasks
         /\ roster'.error = IF roster.user # OwnerId THEN "notOwner" ELSE roster.error]_vars

C13_Witness ==
  /\ last.op = "setStatus" /\ last.res = "notOwner"
  /\ roster.user \in Volunteers
  /\ roster.error = "notOwner"
  /\ DocExists(parts, last.pid)
  /\ parts[last.pid].status = last.st0
  /\ tasks = EmptyBag

\* C14: a withdraw of a participation that is already withdrawn in the store
\* when it is called (by an earlier withdraw or by the organiser's removal)
\* does not decrement currentVolunteers again: when it returns, the stored
\* counter is what it was at the call.
C14_WithdrawNoSecondDecrement ==
  [][\A t \in TaskSet :
       (WithdrawFin(t) /\ t.st0 = "withdrawn") => ev'.cur = t.cv0]_vars

\* C15: when a store write of signUp, withdraw, setStatus or a favourite
\* toggle is rejected, the screen shows an error and what it shows of the
\* participation state (currentVolunteers, isSignedUp, participationId,
\* favoriteId) is exactly what it showed when the operation was called.
C15_FailureLeavesView ==
  [][\A t \in TaskSet :
       (StoreFails(t) /\ t.kind \in {"signUp", "withdraw", "favorite", "setStatus"}) =>
         IF t.kind = "setStatus"
           THEN roster'.error # "null"
           ELSE /\ client'[t.c].error # "null"
                /\ View(t.c)' = t.view0]_vars

\* C16: signUp called with nobody signed in fails with an error shown on the
\* screen and writes nothing: the participations and the event document are
\* unchanged and no request is in flight.
C16_SignUpNeedsUser ==
  [][\A c \in Volunteers :
       (handleSignUp(c, 1) /\ ~client[c].signedIn) =>
         /\ client'[c].error # "null"
         /\ parts' = parts /\ ev' = ev /\ tasks' = tasks]_vars

\* C17: a Participation record is created with status signed_up, and every
\* change of a stored record's status is signed_up -> withdrawn, signed_up ->
\* attended or withdrawn -> signed_up: nothing the screens offer moves a
\* record out of attended or from withdrawn to attended.
LifecycleMoves ==
  {<<"signed_up", "withdrawn">>, <<"signed_up", "attended">>, <<"withdrawn", "signed_up">>}

C17_Lifecycle ==
  [][\A i \in DOMAIN parts' :
       IF i \in DOMAIN parts
         THEN parts'[i].status # parts[i].status =>
                <<parts[i].status, parts'[i].status>> \in LifecycleMoves
         ELSE parts'[i].status = "signed_up"]_vars

C17_Witness ==
  /\ last.op = "setStatus" /\ last.res = "ok" /\ last.st0 = "withdrawn"
  /\ StoredStatus(last.pid) = "signed_up"
  /\ \E i \in DOMAIN parts : parts[i].status = "attended"
  /\ roster.participants # << >>

C19_AtMostOneFavorite ==
  \A c \in Volunteers : Cardinality(FavDocs(favs, c)) <= 1

\* C20: when the sign-ups of two clients both started from a view with
\* currentVolunteers = maxVolunteers - 1 and both have done their addDoc and
\* increment, the store has currentVolunteers > maxVolunteers and more
\* signed_up participations than maxVolunteers.
RacedSignUps ==
  {pair \in TaskSet \X TaskSet :
     /\ pair[1].c # pair[2].c
     /\ \A k \in 1..2 : /\ pair[k].kind = "signUp" /\ pair[k].pc = "fin"
                         /\ pair[k].event.cur = pair[k].event.max - 1}

C20_CapacityRace ==
  RacedSignUps # {} => ev.cur > ev.max /\ ActiveCount > ev.max

C20_Witness ==
  /\ RacedSignUps # {}
  /\ ev.state = "live" /\ ev.cur > ev.max /\ ActiveCount > ev.max

\* C21: the roster rows are in descending order of creation time, a row
\* without a timestamp counting as time 0 and so coming after every row with
\* a positive timestamp; each status bucket is in the same order.
Descending(rows) ==
  \A i, j \in DOMAIN rows :
    i < j =>
      /\ SortKey(rows[i]) >= SortKey(rows[j])
      /\ ~(~rows[i].createdAt.has /\ rows[j].createdAt.has /\ rows[j].createdAt.ms > 0)

C21_RosterOrder ==
  (roster.allowed /\ ~notify[OwnerId].part) =>
    /\ Descending(roster.participants)
    /\ \A st \in Statuses : Descending(Bucket(st))

C21_Witness ==
  /\ roster.allowed /\ ~notify[OwnerId].part
  /\ Len(roster.participants) = MaxDocs
  /\ ~parts[1].createdAt.has
  /\ parts[2].createdAt.has /\ parts[2].createdAt.ms = 0
  /\ parts[3].createdAt.has /\ parts[3].createdAt.ms > 0
  /\ parts[1].status = parts[3].status

\* C22: once a client's sign-up or withdrawal has returned, nothing is in
\* flight and every event notification has been delivered, the
\* currentVolunteers the client shows is the stored currentVolunteers.
C22_SnapshotAuthoritative ==
  \A c \in Volunteers :
    (/\ last.op \in {"signUp", "withdraw"} /\ last.res = "ok" /\ last.c = c
     /\ tasks = EmptyBag
     /\ \A d \in Volunteers : ~notify[d].event
     /\ EventExists /\ client[c].event.present)
    => client[c].event.cur = ev.cur

\* C24: a client has at most one withdrawal in flight, and while it is in
\* flight the withdraw control is disabled, so no second status write and no
\* second -1 adjustment can be issued.
Withdrawals(c) == {t \in TaskSet : t.kind = "withdraw" /\ t.c = c}

C24_OneWithdrawInFlight ==
  \A c \in Volunteers :
    /\ \A t \in Withdrawals(c) : tasks[t] = 1 /\ client[c].withdrawing
    /\ Cardinality(Withdrawals(c)) <= 1

C24_Witness ==
  \E t \in Withdrawals(Solo) :
    /\ t.pc = "inc"
    /\ ~canSignUp(Solo) /\ canWithdraw(Solo)
    /\ InFlight < MaxTasks

\* C26: in signUp, withdraw and setStatus the counter is adjusted only by a
\* handler whose Participation write has been acknowledged and is in the
\* store, and a handler whose Participation write fails ends without having
\* adjusted the counter.
WrittenStatus(t) ==
  CASE t.kind = "signUp" -> "signed_up"
    [] t.kind = "withdraw" -> "withdrawn"
    [] t.kind = "setStatus" -> t.next

C26_WriteOrder ==
  [][/\ (ev.state = "live" /\ ev'.state = "live" /\ ev'.cur # ev.cur) =>
          \E t \in TaskSet :
            /\ t.kind \in {"signUp", "withdraw", "setStatus"} /\ t.pc = "inc"
            /\ tasks' = Replace(t, [t EXCEPT !.pc = "fin"])
            /\ StoredStatus(t.pid) = WrittenStatus(t)
     /\ \A t \in TaskSet :
          (t.pc \in {"add", "upd"} /\ tasks' = Retire(t)) =>
            ev' = ev /\ parts' = parts /\ last'.res = "error"]_vars

C26_Witness ==
  /\ last.op = "withdraw" /\ last.res = "error"
  /\ StoredStatus(last.pid) = "signed_up"
  /\ tasks = EmptyBag
  /\ ev.state = "live" /\ ev.cur = 1 /\ ActiveCount = 1

\* C27: the write of an event edit whose new maxVolunteers is not lower than
\* the stored currentVolunteers leaves the stored currentVolunteers as it is.
C27_EditKeepsCounter ==
  [][\A t \in TaskSet :
       (/\ t.kind = "edit" /\ t.pc = "upd" /\ EventExists
        /\ tasks' = Replace(t, [t EXCEPT !.pc = "fin"])
        /\ t.newMax >= ev.cur)
       => ev'.cur = ev.cur]_vars

\* C28: once the event document has been deleted and nothing is in flight,
\* no Participation and no Favorite record of the event is left in the store.
C28_NoOrphans ==
  (ev.state = "deleted" /\ tasks = EmptyBag) =>
    EventParts(parts) = {} /\ EventFavs(favs) = {}

\* C30: an edit or a delete re-reads the event before it mutates anything.
\* When the event is gone it reports not-found, when the event is another
\* user's it reports not-owner; in both cases the handler ends there with its
\* in-progress flag cleared and the store untouched, so that no write and no
\* cascade delete is ever made by an edit or a delete of a user who is not
\* the creator.
Refused(t, found, owner) ==
  /\ tasks' = Retire(t)
  /\ ev' = ev /\ parts' = parts /\ favs' = favs
  /\ last'.res = (IF ~EventExists THEN "notFound" ELSE "notOwner")
  /\ IF t.kind = "edit"
       THEN /\ ~form'.saving
            /\ form'.error = (IF ~EventExists THEN found ELSE owner)
       ELSE /\ ~ownerScreen'.deleting
            /\ ownerScreen'.error = (IF ~EventExists THEN found ELSE owner)

C30_RecheckBeforeMutating ==
  [][\A t \in TaskSet :
       t.kind \in {"edit", "delete"} =>
         /\ (t.pc = "get" /\ tasks' # tasks /\ (~EventExists \/ t.c # OwnerId)) =>
              Refused(t, IF t.kind = "edit" THEN "errorLoadExisting" ELSE "notFound",
                      "errorNotOwner")
         /\ (ev' # ev \/ parts' # parts \/ favs' # favs) => t.c = OwnerId]_vars

C30_Witness ==
  /\ last.op = "delete" /\ last.res = "notOwner"
  /\ ownerScreen.error = "errorNotOwner" /\ ~ownerScreen.deleting
  /\ form.error = "errorNotOwner" /\ ~form.saving
  /\ EventExists /\ EventParts(parts) # {}
  /\ tasks = EmptyBag

\* C25: within one lifetime of the roster subscription at most one profile
\* request is issued per user.
C25_OneFetchPerUser ==
  \A u \in Volunteers : roster.fetches[u] <= 1

\* C23: on MyEventsScreen the events with a per-event subscription are
\* exactly the events of the last processed participation snapshot, each
\* with one open listener and none open for any other event, cache entries
\* exist only for subscribed events, and after the teardown no per-event
\* listener is open.
C23_SubscriptionsMatchSnapshot ==
  \A c \in Volunteers :
    LET m == client[c].myEvents IN
      /\ m.eventSubscriptions = nextEventIds(parts, m.latestParticipationDocs)
      /\ \A e \in EventIds :
           m.open[e] = IF e \in m.eventSubscriptions THEN 1 ELSE 0
      /\ m.eventCache \subseteq m.eventSubscriptions
      /\ ~m.mounted => m.eventSubscriptions = {}

C23_Witness ==
  LET m == client[Solo].myEvents IN
    /\ m.mounted /\ ~m.pending
    /\ TheEvent \in m.dropped
    /\ m.eventSubscriptions = {OtherEvent}
    /\ m.eventCache = {OtherEvent}
    /\ m.waiting = {}

\* C29: when the auth state is signed out and no auth callback is in flight,
\* appUser is null and no profile listener is open; at no time is more than
\* one profile listener open.
RECURSIVE OpenListeners(_, _)
OpenListeners(a, us) ==
  IF us = {} THEN 0
  ELSE LET u == CHOOSE v \in us : TRUE IN a.open[u] + OpenListeners(a, us \ {u})

C29_AuthSettles ==
  \A c \in Volunteers :
    LET a == client[c].auth IN
      /\ OpenListeners(a, Volunteers) <= 1
      /\ (a.current = NoUser /\ ~\E t \in TaskSet : t.kind = "auth" /\ t.c = c) =>
           a.appUser = NoUser /\ OpenListeners(a, Volunteers) = 0

====
